---- MODULE Spec2Model ----
(***************************************************************************)
(* Model of the Traph: the LRU trie (src/traph/lru_trie.py,                *)
(* src/traph/lru_trie_node.py) and the Traph coordinator                   *)
(* (src/traph/traph.py).  Block stores, trie nodes and link nodes are      *)
(* records addressed by block index; every handler is one action.          *)
(***************************************************************************)
EXTENDS Integers, Sequences, FiniteSets, TLC

(***************************************************************************)
(* Bounds of the model.                                                    *)
(***************************************************************************)
\* bytes of an LRU are 0..MaxChar
MaxChar == 1
\* LRUs have at most MaxLen bytes
MaxLen == 2
\* number of calls on the trie alone in one run
MaxTrieOps == 2
\* number of calls on the Traph in one run
MaxOps == 3
\* number of (source, target) pairs handed to add_links over one run
MaxPairs == 3
\* patterns of creation rules: "the first n bytes", n in 0..MaxPat
MaxPat == 2

(***************************************************************************)
(* Program constants.                                                      *)
(***************************************************************************)
\* number of header blocks of the trie store; block 0 is the NULL pointer
LRU_TRIE_NODE_HEADER_BLOCKS == 1
\* the default creation rule keeps at most this many leading bytes
DefaultRuleLen == 1

Chars == 0..MaxChar

\* the non-empty LRUs handed to the trie
LRUs == UNION {[1..k -> Chars] : k \in 1..MaxLen}

\* Python's None for a block, an id or a lookup result
NoBlock == -1

IsPrefix(s, t) == Len(s) <= Len(t) /\ SubSeq(t, 1, Len(s)) = s

(***************************************************************************)
(* Block storage: block b of a store is element b + 1 of a sequence.       *)
(***************************************************************************)
StorageSize(s) == Len(s)

StorageHas(s, b) == b >= 0 /\ b < Len(s)

StorageRead(s, b) == s[b + 1]

\* write(data, block): append when block is None, else overwrite in place
StorageWrite(s, data, b) ==
    IF b = NoBlock
    THEN [store |-> Append(s, data), block |-> Len(s)]
    ELSE [store |-> [s EXCEPT ![b + 1] = data], block |-> b]

(***************************************************************************)
(* Trie node record and node object.                                       *)
(***************************************************************************)
DefaultData(char) ==
    [char |-> char, page |-> FALSE, we |-> FALSE, rule |-> FALSE,
     next |-> 0, child |-> 0, parent |-> 0,
     outlinks |-> 0, inlinks |-> 0, weid |-> 0]

\* LRUTrieNode(storage, char=char)
NewNode(char) == [block |-> NoBlock, exists |-> FALSE, data |-> DefaultData(char)]

\* node.read(block): a missing block leaves node.block as it was
NodeRead(s, node, b) ==
    IF StorageHas(s, b)
    THEN [block |-> b, exists |-> TRUE, data |-> StorageRead(s, b)]
    ELSE [block |-> node.block, exists |-> FALSE, data |-> DefaultData(0)]

\* LRUTrieNode(storage, block=block)
NodeAt(s, b) == NodeRead(s, NewNode(0), b)

\* node.write() once the storage has written: the node takes the block
NodeWritten(w, node) ==
    [store |-> w.store, node |-> [node EXCEPT !.block = w.block, !.exists = TRUE]]

\* node.write(): the full record goes to the node's block, or is appended
NodeWrite(s, node) == NodeWritten(StorageWrite(s, node.data, node.block), node)

IsRoot(node) == node.block = 0

Root(s) == NodeAt(s, LRU_TRIE_NODE_HEADER_BLOCKS)

\* the trie store after construction: the header blocks are written
RECURSIVE EnsureHeaders(_, _)
EnsureHeaders(s, headerBlock) ==
    IF headerBlock >= LRU_TRIE_NODE_HEADER_BLOCKS THEN s
    ELSE IF NodeAt(s, headerBlock).exists THEN EnsureHeaders(s, headerBlock + 1)
    ELSE EnsureHeaders(NodeWrite(s, NodeAt(s, headerBlock)).store, headerBlock + 1)

(***************************************************************************)
(* Walk history.                                                           *)
(***************************************************************************)
NewHistory ==
    [webentity |-> NoBlock, webentity_prefix |-> <<>>, webentity_position |-> -1,
     rules |-> <<>>, page_was_created |-> FALSE]

UpdateWebentity(h, weid, prefix, position) ==
    [h EXCEPT !.webentity = weid, !.webentity_prefix = prefix,
              !.webentity_position = position]

UpdateWebentityCreationRule(h, rulePrefix) ==
    [h EXCEPT !.rules = Append(@, rulePrefix)]

(***************************************************************************)
(* LRUTrie.                                                                *)
(***************************************************************************)
\* a scan that stops at the last sibling without comparing its char
RECURSIVE ScanSiblings_SkipsLast(_, _, _)
ScanSiblings_SkipsLast(s, node, char) ==
    IF node.data.next = 0 THEN [found |-> FALSE, node |-> node]
    ELSE IF node.data.char = char THEN [found |-> TRUE, node |-> node]
    ELSE ScanSiblings_SkipsLast(s, NodeRead(s, node, node.data.next), char)

\* the scan of a sibling list: the node with the char, or the last sibling
RECURSIVE ScanSiblings(_, _, _)
ScanSiblings(s, node, char) ==
    IF node.data.char = char THEN [found |-> TRUE, node |-> node]
    ELSE IF node.data.next # 0
         THEN ScanSiblings(s, NodeRead(s, node, node.data.next), char)
         ELSE [found |-> FALSE, node |-> node]

\* the last sibling is linked to the new sibling that w wrote
LinkSibling(w, lastNode) ==
    [store |-> NodeWrite(w.store, [lastNode EXCEPT !.data.next = w.node.block]).store,
     node  |-> w.node]

\* a new sibling that takes the last sibling, not its parent, as parent
AfterScan_ParentIsSibling(s, sc, char) ==
    IF sc.found THEN [store |-> s, node |-> sc.node]
    ELSE LinkSibling(NodeWrite(s, [NewNode(char) EXCEPT !.data.parent = sc.node.block]),
                     sc.node)

\* after the scan: the sibling found, or a new one written and then linked
AfterScan(s, sc, char) ==
    IF sc.found THEN [store |-> s, node |-> sc.node]
    ELSE LinkSibling(NodeWrite(s, [NewNode(char) EXCEPT
                                      !.data.parent = sc.node.data.parent]),
                     sc.node)

EnsureCharFromSiblings(s, node, char) ==
    IF ~node.exists
    THEN NodeWrite(s, [node EXCEPT !.data.char = char])
    ELSE AfterScan(s, ScanSiblings(s, node, char), char)

\* second loop of add_lru: the missing part is added as a chain of children;
\* ExtendTail writes the child, LinkChild then rewrites its parent
RECURSIVE ExtendTail(_, _, _, _, _)
RECURSIVE LinkChild(_, _, _, _, _)
LinkChild(w, node, lru, i, h) ==
    ExtendTail(NodeWrite(w.store, [node EXCEPT !.data.child = w.node.block]).store,
               w.node, lru, i + 1, h)

ExtendTail(s, node, lru, i, h) ==
    IF i < Len(lru)
    THEN LinkChild(NodeWrite(s, [NewNode(lru[i + 1]) EXCEPT !.data.parent = node.block]),
                   node, lru, i, h)
    ELSE [store |-> s, node |-> node, history |-> h]

\* a history that keeps the first web entity met and ignores the deeper ones
TrackWebentity_KeepsFirst(h, n, lru, i) ==
    IF n.data.we /\ h.webentity = NoBlock
    THEN UpdateWebentity(h, n.data.weid, SubSeq(lru, 1, i), i) ELSE h

\* the walk history after node n was matched for lru[i]
TrackWebentity(h, n, lru, i) ==
    IF n.data.we THEN UpdateWebentity(h, n.data.weid, SubSeq(lru, 1, i), i) ELSE h

TrackRule(h, n, lru, i) ==
    IF n.data.rule THEN UpdateWebentityCreationRule(h, SubSeq(lru, 1, i + 1)) ELSE h

\* first loop of add_lru: descending the trie
RECURSIVE Descend(_, _, _, _, _)
RECURSIVE DescendFrom(_, _, _, _)
RECURSIVE DescendTracked(_, _, _, _)
\* a first loop that stops at the first matched node and never reads a child
DescendFrom_NeverReadsChild(e, lru, i, h) ==
    ExtendTail(e.store, e.node, lru, i + 1, h)

DescendFrom(e, lru, i, h) ==
    IF i + 1 < Len(lru) /\ e.node.data.child # 0
    THEN Descend(e.store, NodeRead(e.store, e.node, e.node.data.child), lru, i + 1, h)
    ELSE ExtendTail(e.store, e.node, lru, i + 1, h)

DescendTracked(e, lru, i, h) ==
    DescendFrom(e, lru, i, TrackRule(TrackWebentity(h, e.node, lru, i), e.node, lru, i))

Descend(s, node, lru, i, h) ==
    DescendTracked(EnsureCharFromSiblings(s, node, lru[i + 1]), lru, i, h)

add_lru(s, lru) ==
    IF Len(lru) = 0
    THEN [store |-> s, node |-> Root(s), history |-> NewHistory]
    ELSE Descend(s, Root(s), lru, 0, NewHistory)

\* The block writes of add_lru, one by one: each operator below gives the
\* sequence of the stores that the trie goes through, one store per write.

\* a new sibling (w) is written, then the last sibling is rewritten with next
SiblingWrites(w, lastNode) == <<w.store, LinkSibling(w, lastNode).store>>

\* the writes of __ensure_char_from_siblings once the list is scanned
ScanWrites(s, sc, char) ==
    IF sc.found THEN <<>>
    ELSE SiblingWrites(NodeWrite(s, [NewNode(char) EXCEPT
                                        !.data.parent = sc.node.data.parent]),
                       sc.node)

EnsureWrites(s, node, char) ==
    IF ~node.exists
    THEN <<NodeWrite(s, [node EXCEPT !.data.char = char]).store>>
    ELSE ScanWrites(s, ScanSiblings(s, node, char), char)

\* a tail loop that sets the child pointer of the parent to the block the
\* child is going to get, and writes the child after that
RECURSIVE TailWrites_LinkFirst(_, _, _, _)
TailWrites_LinkFirst(s, node, lru, i) ==
    IF i < Len(lru)
    THEN LET linked == NodeWrite(s, [node EXCEPT !.data.child = StorageSize(s)]).store
             w == NodeWrite(linked, [NewNode(lru[i + 1]) EXCEPT
                                        !.data.parent = node.block])
         IN  <<linked, w.store>> \o TailWrites_LinkFirst(w.store, w.node, lru, i + 1)
    ELSE <<>>

\* the writes of the second loop of add_lru: the child (w), then its parent
RECURSIVE TailWrites(_, _, _, _)
RECURSIVE ChildWrites(_, _, _, _)
ChildWrites(w, node, lru, i) ==
    <<w.store, NodeWrite(w.store, [node EXCEPT !.data.child = w.node.block]).store>>
    \o TailWrites(NodeWrite(w.store, [node EXCEPT !.data.child = w.node.block]).store,
                  w.node, lru, i + 1)

TailWrites(s, node, lru, i) ==
    IF i < Len(lru)
    THEN ChildWrites(NodeWrite(s, [NewNode(lru[i + 1]) EXCEPT !.data.parent = node.block]),
                     node, lru, i)
    ELSE <<>>

\* the writes of the first loop of add_lru, then those of the second
RECURSIVE DescendWrites(_, _, _, _)
RECURSIVE EnsuredWrites(_, _, _, _)
EnsuredWrites(e, writes, lru, i) ==
    writes \o (IF i + 1 < Len(lru) /\ e.node.data.child # 0
               THEN DescendWrites(e.store, NodeRead(e.store, e.node, e.node.data.child),
                                  lru, i + 1)
               ELSE TailWrites(e.store, e.node, lru, i + 1))

DescendWrites(s, node, lru, i) ==
    EnsuredWrites(EnsureCharFromSiblings(s, node, lru[i + 1]),
                  EnsureWrites(s, node, lru[i + 1]), lru, i)

add_lru_writes(s, lru) ==
    IF Len(lru) = 0 THEN <<>> ELSE DescendWrites(s, Root(s), lru, 0)

\* the result of add_page once the flagged node is written
PageFlagged(w, h) ==
    [store |-> w.store, node |-> w.node,
     history |-> [h EXCEPT !.page_was_created = TRUE]]

\* flag_as_page(); write(); page_was_created = True
FlagAsPage(r) ==
    PageFlagged(NodeWrite(r.store, [r.node EXCEPT !.data.page = TRUE]), r.history)

AfterAddLru(r) == IF ~r.node.data.page THEN FlagAsPage(r) ELSE r

\* LRUTrie.add_page
trie_add_page(s, lru) == AfterAddLru(add_lru(s, lru))

\* result of a lookup that returns nothing
Absent == [found |-> FALSE]

RECURSIVE LookupFrom(_, _, _, _)
RECURSIVE LookupScanned(_, _, _, _)
LookupScanned(s, sc, lru, i) ==
    IF ~sc.found THEN Absent
    ELSE IF i < Len(lru) - 1
         THEN IF sc.node.data.child = 0 THEN Absent
              ELSE LookupFrom(s, NodeRead(s, sc.node, sc.node.data.child), lru, i + 1)
         ELSE [found |-> TRUE, node |-> sc.node]

LookupFrom(s, node, lru, i) ==
    IF i >= Len(lru) THEN [found |-> TRUE, node |-> node]
    ELSE LookupScanned(s, ScanSiblings(s, node, lru[i + 1]), lru, i)

lru_node(s, lru) == LookupFrom(s, Root(s), lru, 0)

\* a walk that follows a next sibling only on its way down
RECURSIVE DfsLoop_NoNextOnWayUp(_, _, _, _, _)
DfsLoop_NoNextOnWayUp(s, node, descending, lru, out) ==
    IF descending /\ node.data.child # 0
    THEN DfsLoop_NoNextOnWayUp(s, NodeRead(s, node, node.data.child), TRUE,
             lru \o <<node.data.char>>,
             Append(out, [block |-> node.block, lru |-> lru \o <<node.data.char>>,
                          data |-> node.data]))
    ELSE IF descending /\ node.data.next # 0
    THEN DfsLoop_NoNextOnWayUp(s, NodeRead(s, node, node.data.next), TRUE, lru,
             Append(out, [block |-> node.block, lru |-> lru \o <<node.data.char>>,
                          data |-> node.data]))
    ELSE IF ~IsRoot(node)
    THEN DfsLoop_NoNextOnWayUp(s, NodeRead(s, node, node.data.parent), FALSE,
             SubSeq(lru, 1, Len(lru) - 1),
             IF descending
             THEN Append(out, [block |-> node.block, lru |-> lru \o <<node.data.char>>,
                               data |-> node.data])
             ELSE out)
    ELSE out

\* dfs_iter: one turn of the loop per call; out collects the yielded pairs
RECURSIVE DfsLoop(_, _, _, _, _)
DfsLoop(s, node, descending, lru, out) ==
    LET here == lru \o <<node.data.char>>
        out1 == IF descending
                THEN Append(out, [block |-> node.block, lru |-> here, data |-> node.data])
                ELSE out
    IN  IF descending /\ node.data.child # 0
        THEN DfsLoop(s, NodeRead(s, node, node.data.child), TRUE, here, out1)
        ELSE IF node.data.next # 0
        THEN DfsLoop(s, NodeRead(s, node, node.data.next), TRUE, lru, out1)
        ELSE IF ~IsRoot(node)
        THEN DfsLoop(s, NodeRead(s, node, node.data.parent), FALSE,
                     SubSeq(lru, 1, Len(lru) - 1), out1)
        ELSE out1

dfs_iter(s) ==
    LET node == Root(s)
    IN  IF ~node.exists THEN <<>> ELSE DfsLoop(s, node, TRUE, <<>>, <<>>)

pages_iter(s) == SelectSeq(dfs_iter(s), LAMBDA y : y.data.page)

\* windup: the chars met on the parent chain of a block, root first
RECURSIVE windup_lru(_, _)
windup_lru(s, b) ==
    LET d == StorageRead(s, b)
    IN  IF d.parent = 0 THEN <<d.char>> ELSE windup_lru(s, d.parent) \o <<d.char>>

(***************************************************************************)
(* Link store.  Block 0 is its header; a link node is one block.           *)
(***************************************************************************)
LINK_STORE_HEADER_BLOCKS == 1

LinkNode(target) == [target |-> target, next |-> 0, weight |-> 1]

\* the link store after construction: the header block is written
LinkStoreInit == <<[target |-> 0, next |-> 0, weight |-> 0]>>

\* link_nodes_iter: the blocks of the list that starts at head
RECURSIVE link_nodes_iter(_, _)
link_nodes_iter(ls, head) ==
    IF head = 0 THEN <<>>
    ELSE <<head>> \o link_nodes_iter(ls, StorageRead(ls, head).next)

\* the list of node gets a new record for peer: at the head, which rewrites
\* the trie node, or behind the last record of the list
LinkAppended(ts, node, out, blocks, w) ==
    IF blocks = <<>>
    THEN [trie  |-> NodeWrite(ts, IF out THEN [node EXCEPT !.data.outlinks = w.block]
                                         ELSE [node EXCEPT !.data.inlinks = w.block]).store,
          links |-> w.store,
          node  |-> IF out THEN [node EXCEPT !.data.outlinks = w.block]
                           ELSE [node EXCEPT !.data.inlinks = w.block]]
    ELSE [trie  |-> ts,
          links |-> StorageWrite(w.store,
                                 [StorageRead(w.store, blocks[Len(blocks)])
                                     EXCEPT !.next = w.block],
                                 blocks[Len(blocks)]).store,
          node  |-> node]

\* the record at block b counts one more link
WeightAdded(ls, b) ==
    StorageWrite(ls, [StorageRead(ls, b) EXCEPT !.weight = @ + 1], b).store

\* one link added to a list whose blocks are known: the record of the same
\* peer gets one more weight, else a new record is appended
LinkInList(ts, ls, node, peer, out, blocks) ==
    IF \E k \in 1..Len(blocks) : StorageRead(ls, blocks[k]).target = peer
    THEN [trie  |-> ts,
          links |-> WeightAdded(ls, blocks[CHOOSE k \in 1..Len(blocks) :
                                      StorageRead(ls, blocks[k]).target = peer]),
          node  |-> node]
    ELSE LinkAppended(ts, node, out, blocks, StorageWrite(ls, LinkNode(peer), NoBlock))

\* one link added to the list held by a trie node object
AddLink(ts, ls, node, peer, out) ==
    LinkInList(ts, ls, node, peer, out,
               link_nodes_iter(ls, IF out THEN node.data.outlinks
                                          ELSE node.data.inlinks))

\* add_outlinks (out) and add_inlinks (~out): the peers are added in order
RECURSIVE AddLinksToNode(_, _, _)
AddLinksToNode(r, peers, out) ==
    IF peers = <<>> THEN r
    ELSE AddLinksToNode(AddLink(r.trie, r.links, r.node, Head(peers), out),
                        Tail(peers), out)

(***************************************************************************)
(* Traph coordinator.  A Traph state st is the record                      *)
(* [trie, links, header, rules]: the two stores, the last web entity id    *)
(* of the header, and the in-memory map rule prefix -> pattern.            *)
(***************************************************************************)
Min(a, b) == IF a <= b THEN a ELSE b

NoMatch == [matched |-> FALSE, group |-> <<>>]

\* regexp.search(lru) for the pattern "the first n bytes"
ApplyPattern(n, lru) ==
    IF Len(lru) >= n THEN [matched |-> TRUE, group |-> SubSeq(lru, 1, n)]
    ELSE NoMatch

Patterns == 0..MaxPat

\* the default creation rule: "the first byte, up to DefaultRuleLen bytes"
apply_webentity_default_creation_rule(lru) ==
    IF Len(lru) >= 1
    THEN [matched |-> TRUE, group |-> SubSeq(lru, 1, Min(DefaultRuleLen, Len(lru)))]
    ELSE NoMatch

\* __apply_webentity_creation_rule, for a prefix that is a key of the map
apply_webentity_creation_rule(rules, rulePrefix, lru) ==
    ApplyPattern(rules[rulePrefix], lru)

\* the other spelling of the first component of an LRU
Flip(c) == IF c = 0 THEN 1 ELSE IF c = 1 THEN 0 ELSE c

\* lru_variations: the prefix and its variation, each once
lru_variations(prefix) ==
    IF Flip(prefix[1]) = prefix[1] THEN <<prefix>>
    ELSE <<prefix, [prefix EXCEPT ![1] = Flip(@)]>>

expand_prefix(prefix) == lru_variations(prefix)

EmptyReport == [nb_created_pages |-> 0, created_webentities |-> {}]

\* report += other
MergeReports(a, b) ==
    [nb_created_pages |-> a.nb_created_pages + b.nb_created_pages,
     created_webentities |-> a.created_webentities \cup b.created_webentities]

\* a counter that is read and never incremented
generated_web_entity_id_NoIncrement(header) == header

\* header.increment_last_webentity_id(); header.write(); header.last_webentity_id()
generated_web_entity_id(header) == header + 1

\* node.set_webentity(webentity_id); node.write()
SetWebentity(r, weid) ==
    NodeWrite(r.store, [r.node EXCEPT !.data.we = TRUE, !.data.weid = weid]).store

\* an add_prefixes that flags the first prefix and stops
SetPrefixes_FirstOnly(ts, prefixes, weid) ==
    IF prefixes = <<>> THEN ts
    ELSE SetWebentity(add_lru(ts, Head(prefixes)), weid)

RECURSIVE SetPrefixes(_, _, _)
SetPrefixes(ts, prefixes, weid) ==
    IF prefixes = <<>> THEN ts
    ELSE SetPrefixes(SetWebentity(add_lru(ts, Head(prefixes)), weid),
                     Tail(prefixes), weid)

\* an add_prefixes whose incremented counter is not written back
add_prefixes_CounterNotWritten(ts, header, prefixes) ==
    [trie |-> SetPrefixes(ts, prefixes, generated_web_entity_id(header)),
     header |-> header,
     webentity_id |-> generated_web_entity_id(header)]

add_prefixes(ts, header, prefixes) ==
    [trie |-> SetPrefixes(ts, prefixes, generated_web_entity_id(header)),
     header |-> generated_web_entity_id(header),
     webentity_id |-> generated_web_entity_id(header)]

\* a loop that keeps the candidate of the first rule that gave one
Longer_KeepsFirst(m, longest) ==
    IF m.matched /\ m.group # <<>> /\ longest = <<>>
    THEN m.group ELSE longest

\* the candidate kept after one more rule was applied
Longer(m, longest) ==
    IF m.matched /\ m.group # <<>> /\ Len(m.group) > Len(longest)
    THEN m.group ELSE longest

\* the loop of __add_page over history.rules_to_apply(); a prefix that is
\* not a key of the rule map raises
RECURSIVE LongestCandidate(_, _, _, _)
LongestCandidate(rules, toApply, lru, longest) ==
    IF toApply = <<>> THEN [error |-> FALSE, prefix |-> longest]
    ELSE IF Head(toApply) \notin DOMAIN rules
         THEN [error |-> TRUE, prefix |-> longest]
         ELSE LongestCandidate(rules, Tail(toApply), lru,
                  Longer(apply_webentity_creation_rule(rules, Head(toApply), lru),
                         longest))

\* what __add_page returns when it creates nothing: p is the result of
\* LRUTrie.add_page
PageOnly(st, p) ==
    [trie |-> p.store, header |-> st.header, node |-> p.node,
     history |-> p.history, report |-> EmptyReport,
     candidate |-> <<>>, from_rule |-> FALSE, error |-> FALSE]

\* what __add_page returns after add_prefixes made a web entity
Created(st, p, cand, fromRule, made) ==
    [PageOnly(st, p) EXCEPT
        !.trie = made.trie, !.header = made.header,
        !.candidate = cand, !.from_rule = fromRule,
        !.report = [EmptyReport EXCEPT !.created_webentities =
                       {<<made.webentity_id, expand_prefix(cand)>>}]]

\* nothing worked: the default creation rule is applied
AddPageDefault(st, p, dflt) ==
    IF ~dflt.matched THEN [PageOnly(st, p) EXCEPT !.error = TRUE]
    ELSE Created(st, p, dflt.group, FALSE,
                 add_prefixes(p.store, st.header, expand_prefix(dflt.group)))

\* the part of __add_page after the loop: lc is the longest candidate prefix
AfterCandidates(st, p, lru, lc) ==
    IF lc.error THEN [PageOnly(st, p) EXCEPT !.error = TRUE]
    ELSE IF lc.prefix # <<>> /\ Len(lc.prefix) <= p.history.webentity_position + 1
    THEN [PageOnly(st, p) EXCEPT !.candidate = lc.prefix, !.from_rule = TRUE]
    ELSE IF lc.prefix # <<>>
    THEN Created(st, p, lc.prefix, TRUE,
                 add_prefixes(p.store, st.header, expand_prefix(lc.prefix)))
    ELSE AddPageDefault(st, p, apply_webentity_default_creation_rule(lru))

\* the part of __add_page after LRUTrie.add_page
AfterTriePage(st, p, lru) ==
    AfterCandidates(st, p, lru, LongestCandidate(st.rules, p.history.rules, lru, <<>>))

\* __add_page: the page, then the web entity its creation rules ask for
traph_add_page(st, lru) == AfterTriePage(st, trie_add_page(st.trie, lru), lru)

\* f with key k set to v
Put(f, k, v) == [x \in (DOMAIN f) \cup {k} |-> IF x = k THEN v ELSE f[x]]

\* the walk of add_webentity_creation_rule over the subtree of the rule node:
\* one turn of the loop of the bounded dfs per call (ReplayLoop yields,
\* ReplayMove reads on); a yielded page is re-inserted before the walk reads on.
\* acc holds the report so far and the LRUs handed to __add_page so far
RECURSIVE ReplayLoop(_, _, _, _, _, _)
RECURSIVE ReplayMove(_, _, _, _, _, _)
RECURSIVE Replayed(_, _, _, _, _, _)
ReplayMove(st, node, descending, lru, start, acc) ==
    IF descending /\ node.data.child # 0
    THEN ReplayLoop(st, NodeRead(st.trie, node, node.data.child), TRUE,
                    lru \o <<node.data.char>>, start, acc)
    ELSE IF node.block # start /\ node.data.next # 0
    THEN ReplayLoop(st, NodeRead(st.trie, node, node.data.next), TRUE,
                    lru, start, acc)
    ELSE IF node.block # start
    THEN ReplayLoop(st, NodeRead(st.trie, node, node.data.parent), FALSE,
                    SubSeq(lru, 1, Len(lru) - 1), start, acc)
    ELSE [st |-> st, report |-> acc.report, replayed |-> acc.replayed,
          error |-> FALSE]

\* a is what __add_page returned for the page that was yielded
Replayed(a, st, node, lru, start, acc) ==
    IF a.error
    THEN [st |-> [st EXCEPT !.trie = a.trie, !.header = a.header],
          report |-> MergeReports(acc.report, a.report),
          replayed |-> Append(acc.replayed, lru \o <<node.data.char>>),
          error |-> TRUE]
    ELSE ReplayMove([st EXCEPT !.trie = a.trie, !.header = a.header], node, TRUE,
                    lru, start,
                    [report |-> MergeReports(acc.report, a.report),
                     replayed |-> Append(acc.replayed, lru \o <<node.data.char>>)])

\* a walk that re-inserts every node it yields, page or not
ReplayLoop_EveryNode(st, node, descending, lru, start, acc) ==
    IF descending
    THEN Replayed(traph_add_page(st, lru \o <<node.data.char>>), st, node, lru,
                  start, acc)
    ELSE ReplayMove(st, node, descending, lru, start, acc)

ReplayLoop(st, node, descending, lru, start, acc) ==
    IF descending /\ node.data.page
    THEN Replayed(traph_add_page(st, lru \o <<node.data.char>>), st, node, lru,
                  start, acc)
    ELSE ReplayMove(st, node, descending, lru, start, acc)

\* the rule node is flagged and written (w), then its subtree is walked
ReplayFrom(st, w, rulePrefix) ==
    ReplayLoop([st EXCEPT !.trie = w.store], w.node, TRUE,
               SubSeq(rulePrefix, 1, Len(rulePrefix) - 1), w.node.block,
               [report |-> EmptyReport, replayed |-> <<>>])

\* node.flag_as_webentity_creation_rule(); node.write()
FlagAsRule(r) == NodeWrite(r.store, [r.node EXCEPT !.data.rule = TRUE])

\* add_webentity_creation_rule once the pattern is in the rule map
RuleRegistered(st, rulePrefix, writeInTrie) ==
    IF writeInTrie
    THEN ReplayFrom(st, FlagAsRule(add_lru(st.trie, rulePrefix)), rulePrefix)
    ELSE [st |-> st, report |-> EmptyReport, replayed |-> <<>>, error |-> FALSE]

add_webentity_creation_rule(st, rulePrefix, pattern, writeInTrie) ==
    RuleRegistered([st EXCEPT !.rules = Put(@, rulePrefix, pattern)],
                   rulePrefix, writeInTrie)

\* f without key k
Without(f, k) == [x \in (DOMAIN f) \ {k} |-> f[x]]

\* a removal that takes the web entity of the rule node with it
RuleUnflagged_ClearsWebentity(st, found) ==
    IF found = Absent THEN [st |-> st, error |-> TRUE]
    ELSE [st |-> [st EXCEPT !.trie =
                     NodeWrite(st.trie, [found.node EXCEPT !.data.rule = FALSE,
                                                          !.data.we = FALSE,
                                                          !.data.weid = 0]).store],
          error |-> FALSE]

\* node.unflag_as_webentity_creation_rule(); node.write(), on what lru_node
\* returned: nothing found raises, after the rule left the map
RuleUnflagged(st, found) ==
    IF found = Absent THEN [st |-> st, error |-> TRUE]
    ELSE [st |-> [st EXCEPT !.trie =
                     NodeWrite(st.trie, [found.node EXCEPT !.data.rule = FALSE]).store],
          error |-> FALSE]

\* a removal that takes the prefix out of the map and leaves the node flagged
remove_webentity_creation_rule_KeepsFlag(st, rulePrefix) ==
    IF rulePrefix \notin DOMAIN st.rules THEN [st |-> st, error |-> TRUE]
    ELSE [st |-> [st EXCEPT !.rules = Without(@, rulePrefix)], error |-> FALSE]

\* remove_webentity_creation_rule: a prefix that is no key of the map raises
remove_webentity_creation_rule(st, rulePrefix) ==
    IF rulePrefix \notin DOMAIN st.rules THEN [st |-> st, error |-> TRUE]
    ELSE RuleUnflagged([st EXCEPT !.rules = Without(@, rulePrefix)],
                       lru_node(st.trie, rulePrefix))

\* the LRUs of a batch in the order add_links meets them
RECURSIVE LrusOf(_)
LrusOf(batch) ==
    IF batch = <<>> THEN <<>>
    ELSE <<Head(batch)[1], Head(batch)[2]>> \o LrusOf(Tail(batch))

\* first loop of add_links: every LRU of the batch is added once as a page and
\* the node object that __add_page returned is kept in pages
RECURSIVE AddLinkPages(_, _, _, _)
RECURSIVE PageAdded(_, _, _, _, _)
PageAdded(a, st, lrus, pages, report) ==
    IF a.error
    THEN [st |-> [st EXCEPT !.trie = a.trie, !.header = a.header], pages |-> pages,
          report |-> MergeReports(report, a.report), error |-> TRUE]
    ELSE AddLinkPages([st EXCEPT !.trie = a.trie, !.header = a.header], Tail(lrus),
                      Put(pages, Head(lrus), a.node), MergeReports(report, a.report))

AddLinkPages(st, lrus, pages, report) ==
    IF lrus = <<>>
    THEN [st |-> st, pages |-> pages, report |-> report, error |-> FALSE]
    ELSE IF Head(lrus) \in DOMAIN pages
    THEN AddLinkPages(st, Tail(lrus), pages, report)
    ELSE PageAdded(traph_add_page(st, Head(lrus)), st, lrus, pages, report)

\* the keys of a multimap of the batch, in order of first appearance
RECURSIVE KeysOf(_, _)
KeysOf(batch, side) ==
    IF batch = <<>> THEN <<>>
    ELSE IF \E j \in 1..(Len(batch) - 1) : batch[j][side] = batch[Len(batch)][side]
    THEN KeysOf(SubSeq(batch, 1, Len(batch) - 1), side)
    ELSE Append(KeysOf(SubSeq(batch, 1, Len(batch) - 1), side),
                batch[Len(batch)][side])

\* a multimap that keeps every peer of a key once
RECURSIVE PeersOf_Once(_, _, _)
PeersOf_Once(batch, side, key) ==
    IF batch = <<>> THEN <<>>
    ELSE (IF /\ batch[Len(batch)][side] = key
             /\ \A j \in 1..(Len(batch) - 1) : batch[j] # batch[Len(batch)]
          THEN <<batch[Len(batch)][3 - side]>> ELSE <<>>)
         \o PeersOf_Once(SubSeq(batch, 1, Len(batch) - 1), side, key)

\* outlinks[key] (side 1) or inlinks[key] (side 2): the peers of key, in order
RECURSIVE PeersOf(_, _, _)
PeersOf(batch, side, key) ==
    IF batch = <<>> THEN <<>>
    ELSE (IF Head(batch)[side] = key THEN <<Head(batch)[3 - side]>> ELSE <<>>)
         \o PeersOf(Tail(batch), side, key)

\* the node blocks of a list of pages
BlocksOf(pages, lrus) == [k \in 1..Len(lrus) |-> pages[lrus[k]].block]

\* second and third loop of add_links: the lists of every key are written
RECURSIVE FlushLinks(_, _, _, _)
RECURSIVE KeyFlushed(_, _, _, _, _)
KeyFlushed(r, f, batch, keys, side) ==
    FlushLinks([trie |-> r.trie, links |-> r.links,
                pages |-> Put(f.pages, Head(keys), r.node)],
               batch, Tail(keys), side)

FlushLinks(f, batch, keys, side) ==
    IF keys = <<>> THEN f
    ELSE KeyFlushed(AddLinksToNode([trie |-> f.trie, links |-> f.links,
                                    node |-> f.pages[Head(keys)]],
                                   BlocksOf(f.pages, PeersOf(batch, side, Head(keys))),
                                   side = 1),
                    f, batch, keys, side)

\* what add_links leaves: p is the state after the pages, f after the lists
LinksFlushed(p, f) ==
    [st |-> [p.st EXCEPT !.trie = f.trie, !.links = f.links],
     report |-> p.report, error |-> FALSE, pages |-> f.pages]

\* an add_links that writes the outlinks and leaves the inlinks out
FlushBoth_OutlinksOnly(p, batch) ==
    LinksFlushed(p,
        FlushLinks([trie |-> p.st.trie, links |-> p.st.links, pages |-> p.pages],
                   batch, KeysOf(batch, 1), 1))

\* the outlinks of every source, then the inlinks of every target
FlushBoth(p, batch) ==
    LinksFlushed(p,
        FlushLinks(FlushLinks([trie |-> p.st.trie, links |-> p.st.links,
                               pages |-> p.pages],
                              batch, KeysOf(batch, 1), 1),
                   batch, KeysOf(batch, 2), 2))

PagesAdded(p, batch) == IF p.error THEN p ELSE FlushBoth(p, batch)

add_links(st, batch) ==
    PagesAdded(AddLinkPages(st, LrusOf(batch), <<>>, EmptyReport), batch)

\* LinkStoreHeader.__ensure: the header block is written when it is missing
LinkStoreEnsure(ls) ==
    IF StorageHas(ls, 0) THEN ls
    ELSE StorageWrite(ls, [target |-> 0, next |-> 0, weight |-> 0], 0).store

\* a loop that registers the initial rules with write_in_trie set
RECURSIVE RegisterRules_WriteInTrie(_, _, _)
RegisterRules_WriteInTrie(st, initialRules, create) ==
    IF DOMAIN initialRules = {} THEN st
    ELSE RegisterRules_WriteInTrie(
             add_webentity_creation_rule(st,
                 CHOOSE p \in DOMAIN initialRules : TRUE,
                 initialRules[CHOOSE p \in DOMAIN initialRules : TRUE], TRUE).st,
             Without(initialRules, CHOOSE p \in DOMAIN initialRules : TRUE), create)

\* the loop of the constructor over the initial rules: each is registered with
\* write_in_trie = create
RECURSIVE RegisterRules(_, _, _)
RegisterRules(st, initialRules, create) ==
    IF DOMAIN initialRules = {} THEN st
    ELSE RegisterRules(
             add_webentity_creation_rule(st,
                 CHOOSE p \in DOMAIN initialRules : TRUE,
                 initialRules[CHOOSE p \in DOMAIN initialRules : TRUE], create).st,
             Without(initialRules, CHOOSE p \in DOMAIN initialRules : TRUE), create)

\* Traph(overwrite = False, ...) over stores that hold data: create is false,
\* the files are attached as they are, the headers are ensured, the rule map
\* starts empty and gets the initial rules
traph_reopen(st, initialRules) ==
    RegisterRules([trie |-> EnsureHeaders(st.trie, 0),
                   links |-> LinkStoreEnsure(st.links),
                   header |-> st.header,
                   rules |-> <<>>],
                  initialRules, FALSE)

\* links_iter: for every page with outlinks, in the order of pages_iter, its
\* LRU with the LRU of the target of every record of its list
LinksOfPage(s, ls, y) ==
    [k \in 1..Len(link_nodes_iter(ls, y.data.outlinks)) |->
        <<y.lru, windup_lru(s, StorageRead(ls,
                     link_nodes_iter(ls, y.data.outlinks)[k]).target)>>]

RECURSIVE LinksOfPages(_, _, _)
LinksOfPages(s, ls, ys) ==
    IF ys = <<>> THEN <<>>
    ELSE LinksOfPage(s, ls, Head(ys)) \o LinksOfPages(s, ls, Tail(ys))

links_iter(s, ls) == LinksOfPages(s, ls, pages_iter(s))

\* webentity_prefix_iter: the dfs, kept to the nodes flagged has_webentity
WebentityPrefixes(ys) ==
    [k \in 1..Len(ys) |-> <<ys[k].data.weid, ys[k].lru>>]

webentity_prefix_iter(s) ==
    WebentityPrefixes(SelectSeq(dfs_iter(s), LAMBDA y : y.data.we))

(***************************************************************************)
(* State.                                                                  *)
(***************************************************************************)
VARIABLES
    trie,      \* the trie store: block b is trie[b + 1]
    links,     \* the link store: block b is links[b + 1]
    header,    \* last web entity id handed out
    rules,     \* in-memory map: rule prefix -> pattern
    added,     \* the LRUs passed so far as pages
    returned,  \* pairs <<lru, block>>: the node add_lru / add_page returned
    last,      \* the last call: its arguments and what it returned
    nops,      \* number of calls so far
    npairs     \* number of pairs handed to add_links so far

vars == <<trie, links, header, rules, added, returned, last, nops, npairs>>

Traph == [trie |-> trie, links |-> links, header |-> header, rules |-> rules]

NoCall ==
    [op |-> "init", lru |-> <<>>, batch |-> <<>>, block |-> NoBlock,
     history |-> NewHistory, report |-> EmptyReport, candidate |-> <<>>,
     from_rule |-> FALSE, error |-> FALSE, pages |-> <<>>, replayed |-> <<>>,
     rules |-> <<>>]

\* Traph() over empty memory stores, without initial rules
Init ==
    /\ trie = EnsureHeaders(<<>>, 0)
    /\ links = LinkStoreInit
    /\ header = 0
    /\ rules = <<>>
    /\ added = {}
    /\ returned = {}
    /\ last = NoCall
    /\ nops = 0
    /\ npairs = 0

(***************************************************************************)
(* Calls on the LRUTrie alone.                                             *)
(***************************************************************************)
\* the state after a call on the trie that returned r
TrieCallDone(op, lru, r) ==
    /\ trie' = r.store
    /\ returned' = returned \cup {<<lru, r.node.block>>}
    /\ last' = [NoCall EXCEPT !.op = op, !.lru = lru, !.block = r.node.block,
                              !.history = r.history]
    /\ nops' = nops + 1

TrieAddLru(lru) ==
    /\ nops < MaxTrieOps
    /\ TrieCallDone("trie_add_lru", lru, add_lru(trie, lru))
    /\ UNCHANGED <<links, header, rules, added, npairs>>

TrieAddPage(lru) ==
    /\ nops < MaxTrieOps
    /\ TrieCallDone("trie_add_page", lru, trie_add_page(trie, lru))
    /\ added' = added \cup {lru}
    /\ UNCHANGED <<links, header, rules, npairs>>

(***************************************************************************)
(* Calls on the Traph.                                                     *)
(***************************************************************************)
\* the state after Traph.add_page(lru), whose __add_page returned r
AddPageDone(lru, r) ==
    /\ trie' = r.trie
    /\ header' = r.header
    /\ last' = [NoCall EXCEPT !.op = "add_page", !.lru = lru,
                              !.block = r.node.block, !.history = r.history,
                              !.report = r.report, !.candidate = r.candidate,
                              !.from_rule = r.from_rule, !.error = r.error]
    /\ added' = added \cup {lru}
    /\ nops' = nops + 1

AddPage(lru) ==
    /\ nops < MaxOps
    /\ AddPageDone(lru, traph_add_page(Traph, lru))
    /\ UNCHANGED <<links, rules, returned, npairs>>

\* the pages of the calls on the Traph: A, two pages B and D below A, a page
\* E below B, and C, which is the variation of A
PageA == <<1>>
PageB == <<1, 0>>
PageC == <<0>>
PageD == <<1, 1>>
PageE == <<1, 0, 0>>

Pages == {PageA, PageB, PageC, PageD, PageE}

\* the prefixes that creation rules are installed at
RulePrefixes == {PageA, PageB, PageC}

\* the (source, target) pairs of the batches of add_links
LinkPairs ==
    {<<PageA, PageB>>, <<PageA, PageC>>, <<PageB, PageA>>, <<PageA, PageA>>}

\* the pages that add_links is called with
LinkLRUs == {PageA, PageB, PageC}

Batches(n) == UNION {[1..k -> LinkPairs] : k \in 1..n}

PagesOfBatch(batch) ==
    {batch[k][1] : k \in 1..Len(batch)} \cup {batch[k][2] : k \in 1..Len(batch)}

\* the state after add_links(batch) returned r
AddLinksDone(batch, r) ==
    /\ trie' = r.st.trie
    /\ links' = r.st.links
    /\ header' = r.st.header
    /\ last' = [NoCall EXCEPT !.op = "add_links", !.batch = batch,
                              !.report = r.report, !.error = r.error,
                              !.pages = r.pages]
    /\ added' = added \cup PagesOfBatch(batch)
    /\ nops' = nops + 1
    /\ npairs' = npairs + Len(batch)

AddLinks(batch) ==
    /\ nops < MaxOps
    /\ npairs + Len(batch) <= MaxPairs
    /\ AddLinksDone(batch, add_links(Traph, batch))
    /\ UNCHANGED <<rules, returned>>

\* the state after add_webentity_creation_rule returned r
AddRuleDone(rulePrefix, pattern, r) ==
    /\ trie' = r.st.trie
    /\ header' = r.st.header
    /\ rules' = r.st.rules
    /\ last' = [NoCall EXCEPT !.op = "add_rule", !.lru = rulePrefix,
                              !.report = r.report, !.error = r.error,
                              !.replayed = r.replayed]
    /\ nops' = nops + 1

AddRule(rulePrefix, pattern, writeInTrie) ==
    /\ nops < MaxOps
    /\ AddRuleDone(rulePrefix, pattern,
                   add_webentity_creation_rule(Traph, rulePrefix, pattern, writeInTrie))
    /\ UNCHANGED <<links, added, returned, npairs>>

\* the state after remove_webentity_creation_rule(rulePrefix) returned r
RemoveRuleDone(rulePrefix, r) ==
    /\ trie' = r.st.trie
    /\ rules' = r.st.rules
    /\ last' = [NoCall EXCEPT !.op = "remove_rule", !.lru = rulePrefix,
                              !.error = r.error]
    /\ nops' = nops + 1

RemoveRule(rulePrefix) ==
    /\ nops < MaxOps
    /\ RemoveRuleDone(rulePrefix, remove_webentity_creation_rule(Traph, rulePrefix))
    /\ UNCHANGED <<links, header, added, returned, npairs>>

\* the state after the Traph was closed and constructed again over its
\* stores, with overwrite false and the given initial rules: r is the new Traph
ReopenDone(initialRules, r) ==
    /\ trie' = r.trie
    /\ links' = r.links
    /\ header' = r.header
    /\ rules' = r.rules
    /\ last' = [NoCall EXCEPT !.op = "reopen", !.rules = initialRules]
    /\ nops' = nops + 1

Reopen(initialRules) ==
    /\ nops < MaxOps
    /\ ReopenDone(initialRules, traph_reopen(Traph, initialRules))
    /\ UNCHANGED <<added, returned, npairs>>

\* the initial rules of a reopening: none, one at A, one at A and one at B
InitialRules ==
    {<<>>, Put(<<>>, PageA, 1), Put(Put(<<>>, PageA, 1), PageB, 2)}

(***************************************************************************)
(* Specifications.                                                         *)
(***************************************************************************)
\* the trie alone: add_lru and add_page
NextTrie ==
    \/ \E lru \in LRUs : TrieAddLru(lru)
    \/ \E lru \in LRUs : TrieAddPage(lru)

SpecTrie == Init /\ [][NextTrie]_vars

\* pages and links, under the default creation rule
NextLinks ==
    \/ \E lru \in LinkLRUs : AddPage(lru)
    \/ \E batch \in Batches(MaxPairs) : AddLinks(batch)

SpecLinks == Init /\ [][NextLinks]_vars

\* pages and creation rules
Next ==
    \/ \E lru \in Pages : AddPage(lru)
    \/ \E p \in RulePrefixes, n \in Patterns : AddRule(p, n, TRUE)

Spec == Init /\ [][Next]_vars

\* pages, creation rules and their removal
NextRules ==
    \/ \E lru \in Pages : AddPage(lru)
    \/ \E p \in RulePrefixes, n \in Patterns : AddRule(p, n, TRUE)
    \/ \E p \in RulePrefixes : RemoveRule(p)

SpecRules == Init /\ [][NextRules]_vars

\* the four writing calls of the Traph together: pages, batches of one link,
\* rules at A and at B below it, and their removal
NextAll ==
    \/ \E lru \in LinkLRUs : AddPage(lru)
    \/ \E pair \in LinkPairs : AddLinks(<<pair>>)
    \/ \E p \in {PageA, PageB}, n \in Patterns : AddRule(p, n, TRUE)
    \/ \E p \in {PageA, PageB} : RemoveRule(p)

SpecAll == Init /\ [][NextAll]_vars

\* pages, batches of one link and rules at A, with reopenings in between
NextReopen ==
    \/ \E lru \in LinkLRUs : AddPage(lru)
    \/ \E pair \in LinkPairs : AddLinks(<<pair>>)
    \/ \E n \in Patterns : AddRule(PageA, n, TRUE)
    \/ \E initialRules \in InitialRules : Reopen(initialRules)

SpecReopen == Init /\ [][NextReopen]_vars

\* calls on the LRUTrie alone with the pages of the Traph calls as LRUs, and
\* add_page also with the empty LRU
NextEmptyLru ==
    \/ \E lru \in Pages : TrieAddLru(lru)
    \/ \E lru \in Pages \cup {<<>>} : TrieAddPage(lru)

SpecEmptyLru == Init /\ [][NextEmptyLru]_vars

\* pages and rules at A and at B below it, the rules installed with or
\* without their node in the trie, and their removal
NextRuleErrors ==
    \/ \E lru \in {PageA, PageB} : AddPage(lru)
    \/ \E p \in {PageA, PageB}, n \in Patterns, writeInTrie \in BOOLEAN :
          AddRule(p, n, writeInTrie)
    \/ \E p \in {PageA, PageB} : RemoveRule(p)

SpecRuleErrors == Init /\ [][NextRuleErrors]_vars

(***************************************************************************)
(* Views of the trie used by the properties.                               *)
(***************************************************************************)
\* the blocks that hold nodes of the trie
DataBlocks(s) == LRU_TRIE_NODE_HEADER_BLOCKS..(StorageSize(s) - 1)

\* the blocks of the sibling list that starts at block b
RECURSIVE SiblingBlocks(_, _)
SiblingBlocks(s, b) ==
    IF b = 0 THEN <<>> ELSE <<b>> \o SiblingBlocks(s, StorageRead(s, b).next)

\* the first blocks of the sibling lists: the root block and the child pointers
ListHeads(s) ==
    {b \in DataBlocks(s) : b = LRU_TRIE_NODE_HEADER_BLOCKS}
        \cup ({StorageRead(s, b).child : b \in DataBlocks(s)} \ {0})

DistinctChars(s, blocks) ==
    \A j, k \in 1..Len(blocks) :
        j # k => StorageRead(s, blocks[j]).char # StorageRead(s, blocks[k]).char

\* the LRUs passed to add_lru or add_page of the trie
Inserted == {r[1] : r \in returned}

\* the LRUs that pages_iter yields
YieldedPages(s) == LET ys == pages_iter(s) IN {ys[k].lru : k \in 1..Len(ys)}

\* the head of the outlinks (out) or inlinks (~out) list of the node at block b
LinksHead(s, b, out) ==
    IF out THEN StorageRead(s, b).outlinks ELSE StorageRead(s, b).inlinks

\* the link records of the list that starts at head, in list order
LinkRecords(ls, head) ==
    [k \in 1..Len(link_nodes_iter(ls, head)) |->
        StorageRead(ls, link_nodes_iter(ls, head)[k])]

\* the positions of the records of a list whose target is the block t
RecordsTo(recs, t) == {k \in 1..Len(recs) : recs[k].target = t}

\* the weight that the list of the node at block b holds for the peer at block
\* t: 0 when b is not written yet or holds no record for t
RECURSIVE SumWeights(_, _)
SumWeights(recs, ks) ==
    IF ks = {} THEN 0
    ELSE recs[CHOOSE k \in ks : TRUE].weight
            + SumWeights(recs, ks \ {CHOOSE k \in ks : TRUE})

WeightOf(s, ls, b, t, out) ==
    IF ~StorageHas(s, b) THEN 0
    ELSE SumWeights(LinkRecords(ls, LinksHead(s, b, out)),
                    RecordsTo(LinkRecords(ls, LinksHead(s, b, out)), t))

\* every record of the list (out) of the node at block b has its mirror record
\* in the other list of its target, with the same weight
Mirrored(s, ls, b, out) ==
    \A k \in 1..Len(LinkRecords(ls, LinksHead(s, b, out))) :
        /\ LinkRecords(ls, LinksHead(s, b, out))[k].target \in DataBlocks(s)
        /\ \E j \in RecordsTo(LinkRecords(ls,
                       LinksHead(s, LinkRecords(ls, LinksHead(s, b, out))[k].target,
                                 ~out)), b) :
              LinkRecords(ls, LinksHead(s,
                      LinkRecords(ls, LinksHead(s, b, out))[k].target, ~out))[j].weight
                  = LinkRecords(ls, LinksHead(s, b, out))[k].weight

\* the number of times the pair occurs in the batch
Occurrences(batch, pair) == Cardinality({k \in 1..Len(batch) : batch[k] = pair})

\* the list (out) of the node at block a holds one record for the peer at
\* block b, and the call added k to the weight that a held for b
Coalesced(a, b, out, k) ==
    /\ Cardinality(RecordsTo(LinkRecords(links', LinksHead(trie', a, out)), b)) = 1
    /\ WeightOf(trie', links', a, b, out) = WeightOf(trie, links, a, b, out) + k

\* the matches of the creation rules gathered on a walk, applied to lru
RuleMatches(rs, toApply, lru) ==
    {ApplyPattern(rs[toApply[k]], lru).group :
        k \in {j \in 1..Len(toApply) : /\ toApply[j] \in DOMAIN rs
                                       /\ ApplyPattern(rs[toApply[j]], lru).matched}}

\* m is a longest element of the set of matches ms
IsLongest(m, ms) == m \in ms /\ \A x \in ms : Len(x) <= Len(m)

\* the last call was an add_page that made a web entity
PageMadeWebentity ==
    last.op = "add_page" /\ ~last.error /\ last.report.created_webentities # {}

\* the node of lru is there and carries the web entity weid
FlaggedWith(s, lru, weid) ==
    /\ lru_node(s, lru) # Absent
    /\ lru_node(s, lru).node.exists
    /\ lru_node(s, lru).node.data.we
    /\ lru_node(s, lru).node.data.weid = weid

\* the ids of the web entities that a report holds
ReportIds(report) == {e[1] : e \in report.created_webentities}

\* the blocks of the nodes flagged has_webentity
WebentityBlocks(s) == {b \in DataBlocks(s) : StorageRead(s, b).we}

\* the LRUs x and y are prefixes of one expand_prefix set
SamePrefixSet(x, y) ==
    \E k \in 1..Len(expand_prefix(x)) : expand_prefix(x)[k] = y

\* the LRUs of the nodes flagged is_page at or below the node of prefix
PagesBelow(s, prefix) ==
    {windup_lru(s, b) : b \in {c \in DataBlocks(s) :
        StorageRead(s, c).page /\ IsPrefix(prefix, windup_lru(s, c))}}

\* a prefix of x of n bytes or more has a node flagged has_webentity
CoveredFrom(s, x, n) ==
    \E k \in n..Len(x) :
        /\ lru_node(s, SubSeq(x, 1, k)) # Absent
        /\ lru_node(s, SubSeq(x, 1, k)).node.data.we

\* the store s with the rule flag of block b cleared
RuleFlagCleared(s, b) ==
    [k \in 1..Len(s) |-> IF k = b + 1 THEN [s[k] EXCEPT !.rule = FALSE] ELSE s[k]]

\* the rule prefixes that the walk of add_page(lru) gathers in the trie s
GatheredRules(s, lru) ==
    {trie_add_page(s, lru).history.rules[k] :
        k \in 1..Len(trie_add_page(s, lru).history.rules)}

\* the nodes of the sibling list that starts at block b and of the lists
\* below them, in pre-order, each with the LRU of its path; lru is the path
\* of the parent
RECURSIVE PreOrder(_, _, _)
PreOrder(s, b, lru) ==
    IF b = 0 \/ ~StorageHas(s, b) THEN <<>>
    ELSE <<[block |-> b, lru |-> lru \o <<StorageRead(s, b).char>>,
            data |-> StorageRead(s, b)]>>
         \o PreOrder(s, StorageRead(s, b).child, lru \o <<StorageRead(s, b).char>>)
         \o PreOrder(s, StorageRead(s, b).next, lru)

\* from the store o to the later store n, next and child of every node of o
\* went from 0 to a block or stayed, and parent stayed
PointersGrown(o, n) ==
    \A b \in DataBlocks(o) :
        /\ StorageHas(n, b)
        /\ StorageRead(o, b).next \in {0, StorageRead(n, b).next}
        /\ StorageRead(o, b).child \in {0, StorageRead(n, b).child}
        /\ StorageRead(n, b).parent = StorageRead(o, b).parent

\* from the store o to the later store n no node of o lost is_page or
\* has_webentity
FlagsKept(o, n) ==
    \A b \in DataBlocks(o) :
        /\ StorageRead(o, b).page => StorageRead(n, b).page
        /\ StorageRead(o, b).we => StorageRead(n, b).we

\* the trie store inside add_links(batch) on the Traph st, after its pages
\* were added and before its lists are written
TrieAfterPages(st, batch) == AddLinkPages(st, LrusOf(batch), <<>>, EmptyReport).st.trie

\* the strings that the paths of the trie spell, read from the parent pointers
Spelled(s) == {windup_lru(s, b) : b \in DataBlocks(s)}

\* the length of the longest prefix of lru that a path of the trie spells
SpelledLength(s, lru) ==
    CHOOSE k \in 0..Len(lru) :
        /\ k = 0 \/ SubSeq(lru, 1, k) \in Spelled(s)
        /\ \A j \in (k + 1)..Len(lru) : SubSeq(lru, 1, j) \notin Spelled(s)

\* every block of s is a block of t with the same char
CharsKept(s, t) ==
    \A b \in DataBlocks(s) :
        StorageHas(t, b) /\ StorageRead(t, b).char = StorageRead(s, b).char

\* the block of the node whose parent chain spells lru, NoBlock without one
BlockSpelling(s, lru) ==
    IF \E b \in DataBlocks(s) : windup_lru(s, b) = lru
    THEN CHOOSE b \in DataBlocks(s) : windup_lru(s, b) = lru
    ELSE NoBlock

\* the lengths of the prefixes of lru whose node is flagged has_webentity
WebentityDepths(s, lru) ==
    {k \in 1..Len(lru) : BlockSpelling(s, SubSeq(lru, 1, k)) # NoBlock
                         /\ StorageRead(s, BlockSpelling(s, SubSeq(lru, 1, k))).we}

\* the lengths of the prefixes of lru whose node is flagged as creation rule
RuleDepths(s, lru) ==
    {k \in 1..Len(lru) : BlockSpelling(s, SubSeq(lru, 1, k)) # NoBlock
                         /\ StorageRead(s, BlockSpelling(s, SubSeq(lru, 1, k))).rule}

Max(S) == CHOOSE x \in S : \A y \in S : y <= x

\* the id of the deepest node of the path of lru flagged has_webentity
DeepestWebentity(s, lru) ==
    IF WebentityDepths(s, lru) = {} THEN NoBlock
    ELSE StorageRead(s, BlockSpelling(s, SubSeq(lru, 1, Max(WebentityDepths(s, lru))))).weid

\* the prefixes of lru of the lengths in depths, shortest first
RECURSIVE PrefixesAt(_, _, _)
PrefixesAt(lru, depths, k) ==
    IF k > Len(lru) THEN <<>>
    ELSE (IF k \in depths THEN <<SubSeq(lru, 1, k)>> ELSE <<>>)
         \o PrefixesAt(lru, depths, k + 1)

\* the blocks met from block b by child and next pointers, each as often as
\* it is met; fuel bounds the length of a chain of pointers
RECURSIVE Reached(_, _, _)
Reached(s, b, fuel) ==
    IF b = 0 \/ ~StorageHas(s, b) \/ fuel = 0 THEN <<>>
    ELSE <<b>> \o Reached(s, StorageRead(s, b).child, fuel - 1)
             \o Reached(s, StorageRead(s, b).next, fuel - 1)

\* every data block is met exactly once from the root block
ReachedOnce(s) ==
    LET met == Reached(s, LRU_TRIE_NODE_HEADER_BLOCKS, StorageSize(s))
    IN  /\ Len(met) = Cardinality(DataBlocks(s))
        /\ {met[k] : k \in 1..Len(met)} = DataBlocks(s)

\* the nodes of the list at the child pointer of a node have the node as parent,
\* the nodes of the top-level list have parent 0
ParentsMatch(s) ==
    /\ \A b \in DataBlocks(s) :
          LET children == SiblingBlocks(s, StorageRead(s, b).child)
          IN  \A k \in 1..Len(children) : StorageRead(s, children[k]).parent = b
    /\ StorageSize(s) > LRU_TRIE_NODE_HEADER_BLOCKS =>
          LET top == SiblingBlocks(s, LRU_TRIE_NODE_HEADER_BLOCKS)
          IN  \A k \in 1..Len(top) : StorageRead(s, top[k]).parent = 0

\* the LRUs of the nodes flagged as creation rule
RulePrefixesInTrie(s) ==
    {windup_lru(s, b) : b \in {c \in DataBlocks(s) : StorageRead(s, c).rule}}

\* every next, child and parent pointer of the store points to a block that
\* the store holds
PointersValid(s) ==
    \A b \in 0..(StorageSize(s) - 1) :
        /\ StorageHas(s, StorageRead(s, b).next)
        /\ StorageHas(s, StorageRead(s, b).child)
        /\ StorageHas(s, StorageRead(s, b).parent)

(***************************************************************************)
(* Properties.                                                             *)
(***************************************************************************)
\* C1: after any sequence of add_page and add_links calls with non-empty LRUs,
\* the LRUs that pages_iter yields are exactly the LRUs added as pages.
C1_PagesIterYieldsAdded == YieldedPages(trie) = added

\* C2: every sibling list of the trie, the top-level one and the one under
\* any node, holds pairwise distinct chars.
C2_SiblingCharsDistinct ==
    \A b \in ListHeads(trie) : DistinctChars(trie, SiblingBlocks(trie, b))

\* C2 witness: a list of two siblings under a node
C2_Witness ==
    /\ last.op \in {"trie_add_lru", "trie_add_page"}
    /\ \E b \in ListHeads(trie) :
          b # LRU_TRIE_NODE_HEADER_BLOCKS /\ Len(SiblingBlocks(trie, b)) >= 2

\* C3: for every node n of the trie, the lookup of the LRU that the parent
\* chain of n spells returns the node stored at n's block.
C3_WindupLookupRoundTrip ==
    \A b \in DataBlocks(trie) :
        lru_node(trie, windup_lru(trie, b)) = [found |-> TRUE, node |-> NodeAt(trie, b)]

\* C3 witness: a node below the top level that is not the first of its list
C3_Witness ==
    /\ last.op \in {"trie_add_lru", "trie_add_page"}
    /\ \E b \in DataBlocks(trie) :
          /\ StorageRead(trie, b).parent # 0
          /\ StorageRead(trie, StorageRead(trie, b).parent).child # b
          /\ Len(windup_lru(trie, b)) = 2

\* C4: for every LRU S of one byte or more, lru_node(S) returns the node that
\* add_lru(S) returned when S or an extension of S was inserted before, and
\* nothing when no inserted LRU starts with S; also on the empty trie.
C4_LookupFindsExactlyInserted ==
    \A S \in LRUs :
        IF \E T \in Inserted : IsPrefix(S, T)
        THEN /\ lru_node(trie, S) = [found |-> TRUE, node |-> add_lru(trie, S).node]
             /\ \A r \in returned : r[1] = S => add_lru(trie, S).node.block = r[2]
        ELSE lru_node(trie, S) = Absent

\* C5: after every add_links call, every outlink record in the list of a node
\* S with target T has an inlink record in the list of T with target S and the
\* same weight, and every inlink record has such an outlink record.
C5_LinksSymmetric ==
    \A b \in DataBlocks(trie) : Mirrored(trie, links, b, TRUE) /\ Mirrored(trie, links, b, FALSE)

\* C5 witness: add_links after an earlier call left a node with two outlink
\* records, one of them of weight 2 or more
C5_Witness ==
    /\ last.op = "add_links"
    /\ nops >= 2
    /\ \E b \in DataBlocks(trie) :
          /\ Len(LinkRecords(links, LinksHead(trie, b, TRUE))) >= 2
          /\ \E k \in 1..Len(LinkRecords(links, LinksHead(trie, b, TRUE))) :
                LinkRecords(links, LinksHead(trie, b, TRUE))[k].weight >= 2

C7_AddPageTwiceIdempotent ==
    [][(/\ last.op = "add_page" /\ last'.op = "add_page"
        /\ nops' = nops + 1 /\ last'.lru = last.lru) =>
          /\ trie' = trie
          /\ links' = links
          /\ header' = header
          /\ last'.report.nb_created_pages = 0]_vars

\* C8: add_page makes no web entity when its candidate prefix, from a creation
\* rule or from the default creation rule, is not longer than the prefix of
\* the web entity met on the walk (length <= webentity_position + 1).
C8_NoWebentityWhenCovered ==
    (/\ last.op = "add_page" /\ ~last.error
     /\ last.candidate # <<>>
     /\ Len(last.candidate) <= last.history.webentity_position + 1) =>
        last.report.created_webentities = {}

\* C9 as stated: when add_page makes a web entity and a gathered rule matches
\* the LRU, the prefix is the longest match of the gathered rules; the default
\* creation rule gives the prefix only when no gathered rule matches.
C9_LongestRuleMatchWins ==
    PageMadeWebentity =>
        IF RuleMatches(rules, last.history.rules, last.lru) # {}
        THEN /\ last.from_rule
             /\ IsLongest(last.candidate, RuleMatches(rules, last.history.rules, last.lru))
        ELSE /\ ~last.from_rule
             /\ last.candidate = apply_webentity_default_creation_rule(last.lru).group

\* C9 amended: when add_page makes a web entity and a gathered rule has a
\* non-empty match on the LRU, the prefix is the longest match of the gathered
\* rules; the default creation rule gives the prefix only when no gathered
\* rule has a non-empty match.
C9_LongestNonEmptyRuleMatchWins ==
    PageMadeWebentity =>
        IF RuleMatches(rules, last.history.rules, last.lru) \ {<<>>} # {}
        THEN /\ last.from_rule
             /\ IsLongest(last.candidate, RuleMatches(rules, last.history.rules, last.lru))
        ELSE /\ ~last.from_rule
             /\ last.candidate = apply_webentity_default_creation_rule(last.lru).group

\* C9 witness: two gathered rules match with different lengths, and the web
\* entity is made from the longer match, which is longer than the default's
C9_Witness ==
    /\ PageMadeWebentity
    /\ Cardinality(RuleMatches(rules, last.history.rules, last.lru) \ {<<>>}) >= 2
    /\ last.from_rule
    /\ Len(last.candidate) > Len(apply_webentity_default_creation_rule(last.lru).group)

\* C10: when add_page makes a web entity from the candidate prefix c, it
\* allocates the next id, every LRU of expand_prefix(c) then has a node that
\* is flagged has_webentity with that id, no node carried the id before, and
\* the report maps the id to the prefixes of expand_prefix(c) and holds
\* nothing else.
C10_PrefixesFlaggedAndReported ==
    [][(/\ last'.op = "add_page" /\ nops' = nops + 1 /\ ~last'.error
        /\ last'.report.created_webentities # {}) =>
          /\ header' = header + 1
          /\ \A b \in DataBlocks(trie) : StorageRead(trie, b).weid # header'
          /\ last'.candidate # <<>>
          /\ \A k \in 1..Len(expand_prefix(last'.candidate)) :
                FlaggedWith(trie', expand_prefix(last'.candidate)[k], header')
          /\ last'.report.created_webentities
                = {<<header', expand_prefix(last'.candidate)>>}]_vars

\* C10 witness: a web entity made from a rule's two-byte prefix, whose
\* variation was not in the trie before: both prefixes carry the new id
C10_Witness ==
    /\ PageMadeWebentity
    /\ last.from_rule
    /\ Len(last.candidate) = 2
    /\ Len(expand_prefix(last.candidate)) = 2
    /\ last.report.created_webentities = {<<header, expand_prefix(last.candidate)>>}
    /\ FlaggedWith(trie, expand_prefix(last.candidate)[1], header)
    /\ FlaggedWith(trie, expand_prefix(last.candidate)[2], header)

\* C11: every call hands out the ids that follow the counter, one per web
\* entity it makes: the ids of its report are header + 1 .. header', each above
\* every id handed out before, the first being 1; the counter never decreases
\* and the report holds one web entity per id.
C11_IdsStrictlyIncreasing ==
    [][/\ header' >= header
       /\ nops' = nops + 1 =>
             /\ ReportIds(last'.report) = (header + 1)..header'
             /\ Cardinality(last'.report.created_webentities) = header' - header
             /\ (header = 0 /\ header' > 0) => 1 \in ReportIds(last'.report)
       /\ \A b \in WebentityBlocks(trie') : StorageRead(trie', b).weid \in 1..header']_vars

\* C11 witness: after an earlier creation, one call (a batch of links or a rule
\* installation) made two web entities, with the two ids that follow
C11_Witness ==
    /\ last.op \in {"add_links", "add_rule"}
    /\ header >= 3
    /\ ReportIds(last.report) = {header - 1, header}

\* C12 as stated: no two distinct nodes flagged has_webentity carry the same
\* web entity id.
C12_WebentityIdsUniqueAcrossNodes ==
    \A b1, b2 \in WebentityBlocks(trie) :
        b1 # b2 => StorageRead(trie, b1).weid # StorageRead(trie, b2).weid

\* C12 amended: two distinct nodes flagged has_webentity carry the same web
\* entity id only when their LRUs are prefixes of one expand_prefix set.
C12_WebentityIdsUniqueAcrossPrefixSets ==
    \A b1, b2 \in WebentityBlocks(trie) :
        (b1 # b2 /\ StorageRead(trie, b1).weid = StorageRead(trie, b2).weid) =>
            SamePrefixSet(windup_lru(trie, b1), windup_lru(trie, b2))

\* C12 witness: two flagged nodes of one prefix set share an id and a flagged
\* node of another prefix set carries another id
C12_Witness ==
    \E b1, b2, b3 \in WebentityBlocks(trie) :
        /\ b1 # b2
        /\ StorageRead(trie, b1).weid = StorageRead(trie, b2).weid
        /\ windup_lru(trie, b1) # windup_lru(trie, b2)
        /\ StorageRead(trie, b3).weid # StorageRead(trie, b1).weid
        /\ ~SamePrefixSet(windup_lru(trie, b1), windup_lru(trie, b3))

C14_RemoveRuleOnlyUnflags ==
    [][(/\ last'.op = "remove_rule" /\ nops' = nops + 1
        /\ last'.lru \in DOMAIN rules) =>
          /\ ~last'.error
          /\ lru_node(trie, last'.lru) # Absent
          /\ trie' = RuleFlagCleared(trie, lru_node(trie, last'.lru).node.block)
          /\ links' = links
          /\ header' = header
          /\ last'.lru \notin DOMAIN rules'
          /\ \A x \in Pages :
                IsPrefix(last'.lru, x) => last'.lru \notin GatheredRules(trie', x)]_vars

\* C14 witness: the rule of B is removed after its installation had made a web
\* entity for the page E below it: the node of B keeps the web entity and an
\* add_page(E) does not gather the rule
C14_Witness ==
    /\ last.op = "remove_rule"
    /\ last.lru = PageB
    /\ ~last.error
    /\ added = {PageE}
    /\ lru_node(trie, PageB) # Absent
    /\ lru_node(trie, PageB).node.data.we
    /\ ~lru_node(trie, PageB).node.data.rule
    /\ PageB \notin GatheredRules(trie, PageE)

\* C15: dfs_iter returns, and what it yields is the pre-order of the trie
\* from the root block: every node once, each with the LRU that its parent
\* chain spells, also when the top-level sibling list has two or more nodes.
C15_DfsYieldsPreOrder ==
    LET ys == dfs_iter(trie)
    IN  /\ ys = PreOrder(trie, LRU_TRIE_NODE_HEADER_BLOCKS, <<>>)
        /\ {ys[k].block : k \in 1..Len(ys)} = DataBlocks(trie)
        /\ Len(ys) = Cardinality(DataBlocks(trie))
        /\ \A k \in 1..Len(ys) : ys[k].lru = windup_lru(trie, ys[k].block)

\* C15 witness: two nodes at the top level, the first of them with a child:
\* the walk yields the three nodes
C15_Witness ==
    /\ last.op \in {"trie_add_lru", "trie_add_page"}
    /\ Len(SiblingBlocks(trie, LRU_TRIE_NODE_HEADER_BLOCKS)) >= 2
    /\ StorageRead(trie, LRU_TRIE_NODE_HEADER_BLOCKS).child # 0
    /\ Len(dfs_iter(trie)) = 3

\* C16: the report of add_page counts one created page when the call set
\* is_page on the terminal node (page_was_created of its walk history) and
\* none otherwise.
C16_ReportCountsCreatedPages ==
    (last.op = "add_page" /\ ~last.error) =>
        last.report.nb_created_pages
            = (IF last.history.page_was_created THEN 1 ELSE 0)

\* C17: constructing the Traph again over stores that hold data, with
\* overwrite false, writes to neither store: the trie store, the link store
\* and the id counter are as before, the initial rules are in the rule map,
\* and pages_iter, links_iter and webentity_prefix_iter yield what they
\* yielded before the close.
C17_ReopenWritesNothing ==
    [][(last'.op = "reopen" /\ nops' = nops + 1) =>
          /\ trie' = trie
          /\ links' = links
          /\ header' = header
          /\ rules' = last'.rules
          /\ pages_iter(trie') = pages_iter(trie)
          /\ links_iter(trie', links') = links_iter(trie, links)
          /\ webentity_prefix_iter(trie') = webentity_prefix_iter(trie)]_vars

\* C17 witness: a reopening with rules at A and B of a Traph that holds pages,
\* web entities and a link, and no node for the rule prefix B
C17_Witness ==
    /\ last.op = "reopen"
    /\ DOMAIN rules = {PageA, PageB}
    /\ lru_node(trie, PageB) = Absent
    /\ pages_iter(trie) # <<>>
    /\ links_iter(trie, links) # <<>>
    /\ webentity_prefix_iter(trie) # <<>>

\* C18: over every call, next and child of a trie node change only from 0 to
\* a block and parent never changes; and inside add_links, writing the lists
\* from the cached page nodes resets no pointer and no flag that the call
\* wrote to the trie while it added the pages.
C18_PointersOnlyGrow ==
    [][/\ PointersGrown(trie, trie')
       /\ (last'.op = "add_links" /\ nops' = nops + 1 /\ ~last'.error) =>
             /\ PointersGrown(TrieAfterPages(Traph, last'.batch), trie')
             /\ FlagsKept(TrieAfterPages(Traph, last'.batch), trie')]_vars

\* C19: after every single block write of add_lru, every nonzero next or
\* child pointer of the trie store points to a block that the store already
\* holds; the writes taken one by one end in the store that add_lru leaves.
C19_WritesKeepPointersValid ==
    [][\A lru \in LRUs :
          (last'.op = "trie_add_lru" /\ last'.lru = lru /\ nops' = nops + 1) =>
              LET ws == add_lru_writes(trie, lru)
              IN  /\ \A k \in 1..Len(ws) : PointersValid(ws[k])
                  /\ ws # <<>> => ws[Len(ws)] = trie'
                  /\ ws = <<>> => trie' = trie]_vars

\* C19 witness: add_lru of the two bytes 1, 0 after add_lru of the byte 0 made
\* four writes: the sibling, the link to it, the child, the link to it
C19_Witness ==
    /\ last.op = "trie_add_lru"
    /\ last.lru = <<1, 0>>
    /\ returned = {<<<<0>>, 1>>, <<<<1, 0>>, 3>>}
    /\ Len(add_lru_writes(add_lru(EnsureHeaders(<<>>, 0), <<0>>).store, <<1, 0>>)) = 4
    /\ add_lru_writes(add_lru(EnsureHeaders(<<>>, 0), <<0>>).store, <<1, 0>>)[4] = trie

\* C20: add_lru(S), called directly or by add_page of the trie, appends as
\* many blocks as S has bytes beyond its longest prefix that a path of the
\* trie spells (none when S is an inserted LRU or a prefix of one, one for a
\* new LRU of one byte), and the char of every existing node is unchanged.
C20_AppendsMissingSuffixOnly ==
    [][(last'.op \in {"trie_add_lru", "trie_add_page"} /\ nops' = nops + 1) =>
          /\ StorageSize(trie') - StorageSize(trie)
                = Len(last'.lru) - SpelledLength(trie, last'.lru)
          /\ (\E p \in Inserted : IsPrefix(last'.lru, p)) =>
                StorageSize(trie') = StorageSize(trie)
          /\ (Len(last'.lru) = 1 /\ last'.lru \notin Spelled(trie)) =>
                StorageSize(trie') = StorageSize(trie) + 1
          /\ CharsKept(trie, trie')]_vars

\* C20 witness: add_lru of the bytes 1, 1 after add_lru of the bytes 1, 0
\* appended one block, for the byte beyond the spelled prefix 1
C20_Witness ==
    /\ last.op = "trie_add_lru"
    /\ last.lru = <<1, 1>>
    /\ returned = {<<<<1, 0>>, 2>>, <<<<1, 1>>, 3>>}
    /\ StorageSize(trie) = 4
    /\ SpelledLength(add_lru(EnsureHeaders(<<>>, 0), <<1, 0>>).store, <<1, 1>>) = 1
    /\ Spelled(trie) = {<<1>>, <<1, 0>>, <<1, 1>>}

\* C21: in every reachable trie, the walk history that add_lru(S) returns holds
\* the web entity id of the deepest node of the path of S flagged has_webentity
\* (none without such a node, whatever the flags of the other siblings), and
\* its rules are the prefixes of S whose node is flagged as creation rule,
\* once each, shortest first.
C21_HistoryHoldsDeepestWebentityAndRules ==
    \A lru \in Pages :
        LET h == add_lru(trie, lru).history
        IN  /\ h.webentity = DeepestWebentity(trie, lru)
            /\ h.rules = PrefixesAt(lru, RuleDepths(trie, lru), 1)

\* C21 witness: the nodes of PageA and PageB hold two different web entities,
\* the top-level sibling PageC is flagged too, PageA is a creation rule: the
\* walk of PageE returns the web entity of PageB and the rule of PageA
C21_Witness ==
    /\ WebentityDepths(trie, PageE) = {1, 2}
    /\ StorageRead(trie, BlockSpelling(trie, PageA)).weid
          # StorageRead(trie, BlockSpelling(trie, PageB)).weid
    /\ BlockSpelling(trie, PageC) # NoBlock
    /\ StorageRead(trie, BlockSpelling(trie, PageC)).we
    /\ add_lru(trie, PageE).history.webentity
          = StorageRead(trie, BlockSpelling(trie, PageB)).weid
    /\ add_lru(trie, PageE).history.rules = <<PageA>>

\* C22: a remove_webentity_creation_rule that raises (the prefix is no
\* installed rule, or its node is not in the trie) leaves the trie, the link
\* store and the rule map as they were before the call.
C22_FailedRemovalChangesNothing ==
    [][(last'.op = "remove_rule" /\ nops' = nops + 1 /\ last'.error) =>
          /\ trie' = trie
          /\ links' = links
          /\ rules' = rules]_vars

\* C23: add_page of the empty LRU appends no data block and sets is_page on
\* no node (every node of the trie spells an LRU of one byte or more), in the
\* empty trie as in any other.
C23_EmptyLruTouchesNoNode ==
    [][(last'.op = "trie_add_page" /\ last'.lru = <<>> /\ nops' = nops + 1) =>
          /\ StorageSize(trie') = StorageSize(trie)
          /\ \A b \in DataBlocks(trie') :
                StorageRead(trie', b).page =>
                    b \in DataBlocks(trie) /\ StorageRead(trie, b).page]_vars

\* C24: in every reachable state of the trie, the nodes of the sibling list at
\* the child pointer of node n have n's block as parent, the nodes of the
\* top-level list have parent 0, and every written data block is met exactly
\* once from the root by child and next pointers.
C24_TrieIsATree ==
    /\ ParentsMatch(trie)
    /\ ReachedOnce(trie)

\* C25: a node flagged has_webentity keeps its web entity id through every
\* later add_page, add_links and rule installation: no call replaces the id
\* of a flagged node by another id.
C25_WebentityOfNodeNeverReplaced ==
    [][\A b \in WebentityBlocks(trie) :
          (StorageHas(trie', b) /\ StorageRead(trie', b).we) =>
              StorageRead(trie', b).weid = StorageRead(trie, b).weid]_vars

\* C26: after any sequence of rule installations in the trie, rule removals
\* and add_page, the prefix of every node flagged as creation rule is a key
\* of the rule map, and so is every rule that the walk of a page gathers.
C26_FlaggedRulesAreInRuleMap ==
    /\ RulePrefixesInTrie(trie) \subseteq DOMAIN rules
    /\ \A lru \in Pages : GatheredRules(trie, lru) \subseteq DOMAIN rules

\* C26 witness: of the rules installed at PageA and PageB, the one of PageA was
\* removed: its node is still there, the node of PageB alone is flagged
C26_Witness ==
    /\ last.op = "remove_rule"
    /\ last.lru = PageA
    /\ ~last.error
    /\ BlockSpelling(trie, PageA) # NoBlock
    /\ RulePrefixesInTrie(trie) = {PageB}
    /\ DOMAIN rules = {PageB}

====
